---- MODULE Spec2Model ----
(***************************************************************************)
(* Model of the prompt store of llm-prompt-manager: the SQLite tables      *)
(* prompts, prompt_versions and prompt_embeddings and the operations of    *)
(* the database module on them.  The repository holds two variants of the  *)
(* database module; `variant' says which one runs:                         *)
(*   "db"   - src/server/db.js: PRAGMA foreign_keys = ON, createPrompt     *)
(*            logs a version 1 baseline, restore numbers v + 1;            *)
(*   "tags" - src/unnamed/part_006 (the tag-bearing module): no foreign-   *)
(*            key pragma, no baseline, restore numbers MAX + 1.            *)
(* `last' records the call and outcome of the most recent step that        *)
(* settled.  The specifications share the handlers.  In Spec (the version  *)
(* history), SpecEmbed (embeddings and the searches that read them),       *)
(* SpecResolve (id resolution), SpecCreate (writing a prompt and reading   *)
(* it back), SpecSearch (lexical, semantic and hybrid search over several  *)
(* prompts), SpecRank (the search_rank of the lexical search) and          *)
(* SpecSuggest (the suggestions route) handlers run one at a time.  In     *)
(* SpecConc, SpecUpdates and SpecBatch calls overlap: `calls' holds the    *)
(* calls that have awaited and each step runs one of them up to a later    *)
(* await.                                                                  *)
(* Left out: the categories table, timestamps and the rank the FTS5 engine *)
(* computes (both are inputs of the lexical search under SpecRank) and the *)
(* uuid of a version row (a row is identified by prompt_id and             *)
(* version_number, which the table declares UNIQUE).                       *)
(***************************************************************************)
EXTENDS Integers, Sequences, FiniteSets, TLC

VARIABLES variant, prompts, prompt_versions, prompt_embeddings, pending, last,
          calls

vars == <<variant, prompts, prompt_versions, prompt_embeddings, pending, last,
          calls>>

(* ------------------------------ bounds --------------------------------- *)

\* Largest version_number an update or restore may write.
MaxVersion == 3

\* Largest limit a search is given under SpecSearch.
MaxLimit == 2

(* ----------------------------- constants ------------------------------- *)

\* "Standard UUID length is 36 characters"
FullIdLength == 36

\* new Float32Array(384) of the fallback generator
SimpleEmbeddingLength == 384

\* length of a text-embedding-3-small vector
OpenAIEmbeddingLength == 1536

\* SQL NULL (also what sqlite3 binds for a JS undefined or null)
NULL == "NULL"

(* ------------------------------- ids ----------------------------------- *)

\* An id is a sequence of characters.  uuidv4() ids are 36 characters long;
\* the model's ids are two leading characters followed by a fixed tail.
IdTail == [i \in 1..(FullIdLength - 2) |-> "0"]

Uuid(head) == head \o IdTail

\* The ids uuidv4() returns under Spec and SpecEmbed.
Ids == {Uuid(<<"a", "1">>)}

\* The id arguments handed to the handlers under Spec and SpecEmbed: the
\* full id, a prefix of it, and a full id that is never stored.
IdInputs == Ids \cup {<<"a">>, Uuid(<<"b", "2">>)}

\* The ids stored under SpecResolve.
ResolveIds == {Uuid(<<"a", "1">>), Uuid(<<"a", "2">>), Uuid(<<"b", "1">>)}

\* The arguments _resolvePromptId is given under SpecResolve.
ResolveInputs ==
  ResolveIds \cup
  { Uuid(<<"b", "2">>), Uuid(<<"A", "1">>), Uuid(<<"_", "1">>),
    <<>>, <<" ">>, <<"a">>, <<"b">>, <<"a", "1">>, <<"a", "2">>, <<"1">>,
    <<"A">>, <<"B", "1">>, <<"_">>, <<"_", "2">>, <<"%">>, <<"%", "2">>, <<"a", "%">> }

(* ----------------------------- characters ------------------------------ *)

Whitespace == {" "}

UpperToLower == [c \in {"A", "B"} |-> IF c = "A" THEN "a" ELSE "b"]

\* SQLite's LIKE folds ASCII letters.
ToLower(c) == IF c \in DOMAIN UpperToLower THEN UpperToLower[c] ELSE c

\* String(idInput).trim() === ''
IsBlank(s) == \A i \in 1..Len(s) : s[i] \in Whitespace

\* SQLite's  str LIKE pattern : % matches any run of characters, _ any one
\* character, every other character matches itself ignoring ASCII case.
RECURSIVE Like(_, _)
Like(str, pattern) ==
  IF pattern = <<>> THEN str = <<>>
  ELSE IF Head(pattern) = "%"
       THEN \/ Like(str, Tail(pattern))
            \/ str # <<>> /\ Like(Tail(str), pattern)
  ELSE IF str = <<>> THEN FALSE
  ELSE IF Head(pattern) = "_" THEN Like(Tail(str), Tail(pattern))
  ELSE ToLower(Head(pattern)) = ToLower(Head(str)) /\ Like(Tail(str), Tail(pattern))

\* The LIKE pattern _resolvePromptId builds: idString + '%'
PrefixPattern(idString) == idString \o <<"%">>

(* -------------------------------- tags --------------------------------- *)

\* A tag and the tags column are sequences of characters; the tags a caller
\* passes and a read returns are a sequence of tags.

\* tags.join(',')
RECURSIVE Join(_)
Join(tags) ==
  IF tags = <<>> THEN <<>>
  ELSE IF Len(tags) = 1 THEN tags[1]
  ELSE tags[1] \o <<",">> \o Join(Tail(tags))

\* str.split(',')
RECURSIVE Split(_)
Split(str) ==
  IF \A i \in 1..Len(str) : str[i] # "," THEN <<str>>
  ELSE LET k == CHOOSE i \in 1..Len(str) :
                  str[i] = "," /\ \A j \in 1..(i - 1) : str[j] # ","
       IN  <<SubSeq(str, 1, k - 1)>> \o Split(SubSeq(str, k + 1, Len(str)))

\* row.tags ? row.tags.split(',') : []
ParseTags(str) == IF str = <<>> THEN <<>> ELSE Split(str)

\* Array.isArray(tags) ? tags.join(',') : tags || ''  for the tags of an
\* object that holds an array of tags or no tags at all.
TagsString(fields) ==
  IF "tags" \in DOMAIN fields THEN Join(fields.tags) ELSE <<>>

\* { ...row, tags }
WithTags(row, tags) ==
  [k \in DOMAIN row \cup {"tags"} |-> IF k = "tags" THEN tags ELSE row[k]]

(* --------------------------- _resolvePromptId -------------------------- *)

\* _resolvePromptId over a set of stored ids: [status, id].
ResolveIn(stored, idInput) ==
  IF idInput = <<>> \/ IsBlank(idInput)
  THEN [status |-> "empty", id |-> <<>>]
  ELSE IF Len(idInput) = FullIdLength
  THEN IF idInput \in stored
       THEN [status |-> "ok", id |-> idInput]
       ELSE [status |-> "notfound", id |-> <<>>]
  ELSE IF Len(idInput) > 0 /\ Len(idInput) < FullIdLength
  THEN LET rows == {i \in stored : Like(i, PrefixPattern(idInput))}
       IN  IF Cardinality(rows) = 1
           THEN [status |-> "ok", id |-> CHOOSE i \in rows : TRUE]
           ELSE IF Cardinality(rows) > 1
           THEN [status |-> "ambiguous", id |-> <<>>]
           ELSE [status |-> "notfound", id |-> <<>>]
  ELSE [status |-> "invalid", id |-> <<>>]

ResolvePromptId(idInput) == ResolveIn(DOMAIN prompts, idInput)

(* ------------------------------ inputs --------------------------------- *)

\* The field values a caller passes to create, update and import.
ValidFields ==
  { [title |-> "VersionTest", content |-> "Original", category |-> NULL],
    [title |-> "Renamed",     content |-> "Updated",  category |-> "Test"] }

\* A body with the title or the content left out.
MissingFields ==
  { [title |-> NULL,      content |-> "Updated", category |-> "Test"],
    [title |-> "Renamed", content |-> NULL,      category |-> "Test"] }

PromptInputs == ValidFields \cup MissingFields

\* A body whose title or content is the empty string.
EmptyFields ==
  { [title |-> "",        content |-> "Updated", category |-> "Test"],
    [title |-> "Renamed", content |-> "",        category |-> "Test"] }

\* The tags arrays a caller passes: none, one tag, two tags, a tag that
\* holds a comma, and the empty tag.
TagLists ==
  { <<>>, << <<"a">> >>, << <<"a">>, <<"b">> >>, << <<"a", ",", "b">> >>,
    << <<>> >> }

\* Bodies that carry a tags array.
TaggedFields ==
  { WithTags([title |-> "VersionTest", content |-> "Original", category |-> NULL],
             tags) : tags \in TagLists }

\* The bodies handed to create and import under SpecCreate.
CreateInputs == ValidFields \cup EmptyFields \cup TaggedFields

\* The change_reason argument; the callers of the model leave it out.
ChangeReasons == {NULL}

\* The ids uuidv4() returns under SpecSearch.
SearchIds == ResolveIds

\* The body each prompt is created with under SpecSearch.
SearchBody ==
  [id \in SearchIds |->
     IF id = Uuid(<<"a", "1">>)
     THEN [title |-> "JavaScript", content |-> "code", category |-> "Coding"]
     ELSE IF id = Uuid(<<"a", "2">>)
     THEN [title |-> "Python", content |-> "data", category |-> "Coding"]
     ELSE [title |-> "Creative", content |-> "javascript", category |-> "Writing"]]

\* The search terms under SpecSearch: one that two prompts of different
\* categories match, one that starts a word of every prompt.
SearchQueries == {"javascript", "c"}

\* The category filter of a search: none, or Coding.
SearchCategories == {NULL, "Coding"}

\* The search term under SpecEmbed.
EmbedQuery == "updated"

\* What the call to the OpenAI embeddings endpoint does: no OPENAI_API_KEY
\* is configured, the call answers, or it fails (HTTP error, exception).
ApiOutcomes == {"nokey", "ok", "error"}

(* ------------------------------ schema --------------------------------- *)

\* connectDb: PRAGMA foreign_keys = ON is issued by src/server/db.js only.
ForeignKeys == variant = "db"

\* prompts.title and prompts.content are TEXT NOT NULL.
PromptNotNullFails(fields) == fields.title = NULL \/ fields.content = NULL

\* InsertVersionFails for a prompt_versions table declared without
\* UNIQUE(prompt_id, version_number).
InsertVersionFailsNoUnique(row) ==
  \/ row.title = NULL \/ row.content = NULL
  \/ ForeignKeys /\ row.prompt_id \notin DOMAIN prompts

\* INSERT INTO prompt_versions fails on NOT NULL, on
\* UNIQUE(prompt_id, version_number) and, with foreign keys on, on a
\* prompt_id that is not in prompts.
InsertVersionFails(row) ==
  \/ row.title = NULL \/ row.content = NULL
  \/ \E q \in prompt_versions :
       q.prompt_id = row.prompt_id /\ q.version_number = row.version_number
  \/ ForeignKeys /\ row.prompt_id \notin DOMAIN prompts

\* INSERT OR REPLACE INTO prompt_embeddings fails, with foreign keys on, on
\* a prompt_id that is not in prompts.
InsertEmbeddingFails(promptId) == ForeignKeys /\ promptId \notin DOMAIN prompts

VersionsOf(id) == {r \in prompt_versions : r.prompt_id = id}

\* VersionRow with the title and content parameters bound in the wrong order.
VersionRowSwapped(id, n, fields, reason) ==
  LET row == [prompt_id |-> id, version_number |-> n, title |-> fields.content,
              content |-> fields.title, category |-> fields.category,
              change_reason |-> reason]
  IN  IF variant = "tags" THEN WithTags(row, TagsString(fields)) ELSE row

\* The prompt_versions row an INSERT binds; the tag-bearing module binds the
\* joined tags as well.
VersionRow(id, n, fields, reason) ==
  LET row == [prompt_id |-> id, version_number |-> n, title |-> fields.title,
              content |-> fields.content, category |-> fields.category,
              change_reason |-> reason]
  IN  IF variant = "tags" THEN WithTags(row, TagsString(fields)) ELSE row

\* The title, content and category columns of a row.
FieldsOf(row) ==
  [title |-> row.title, content |-> row.content, category |-> row.category]

\* The prompts row an INSERT or UPDATE binds from the fields of an object;
\* the tag-bearing module binds the joined tags as well.
StoredRow(fields) ==
  IF variant = "tags" THEN WithTags(FieldsOf(fields), TagsString(fields))
  ELSE FieldsOf(fields)

\* The prompt a read makes of a prompts row: the tag-bearing module splits
\* the tags column.
ReadRow(row) ==
  IF variant = "tags" THEN WithTags(FieldsOf(row), ParseTags(row.tags))
  ELSE row

\* The version a read makes of a prompt_versions row: both modules add the
\* split tags column, which holds nothing where the table has none.
ReadVersion(row) ==
  WithTags(row, IF "tags" \in DOMAIN row THEN ParseTags(row.tags) ELSE <<>>)

\* The list getPromptVersions makes of the rows: the tag-bearing module adds
\* the split tags column to every row.
ReadVersions(rows) ==
  IF variant = "tags" THEN [i \in 1..Len(rows) |-> ReadVersion(rows[i])]
  ELSE rows

\* prompts with the row of id set to fields.
PutPrompt(id, fields) ==
  [i \in DOMAIN prompts \cup {id} |-> IF i = id THEN fields ELSE prompts[i]]

\* prompts without the rows of ids.
DropPrompts(ids) == [i \in DOMAIN prompts \ ids |-> prompts[i]]

\* ON DELETE CASCADE: the version rows left when the prompts ids go.
CascadeVersions(ids) ==
  IF ForeignKeys THEN {r \in prompt_versions : r.prompt_id \notin ids}
  ELSE prompt_versions

\* ON DELETE CASCADE: the embedding rows left when the prompts ids go.
CascadeEmbeddings(ids) ==
  IF ForeignKeys
  THEN [k \in DOMAIN prompt_embeddings \ ids |-> prompt_embeddings[k]]
  ELSE prompt_embeddings

\* SELECT MAX(version_number) ... ; row?.max_version || 0
MaxVersionNumber(id) ==
  IF VersionsOf(id) = {} THEN 0
  ELSE CHOOSE n \in {r.version_number : r \in VersionsOf(id)} :
         \A r \in VersionsOf(id) : r.version_number <= n

\* ORDER BY version_number ASC
RECURSIVE OrderByVersionAsc(_)
OrderByVersionAsc(rows) ==
  IF rows = {} THEN <<>>
  ELSE LET low == CHOOSE r \in rows :
                    \A q \in rows : r.version_number <= q.version_number
       IN  <<low>> \o OrderByVersionAsc(rows \ {low})

\* ORDER BY version_number DESC
RECURSIVE OrderByVersionDesc(_)
OrderByVersionDesc(rows) ==
  IF rows = {} THEN <<>>
  ELSE LET top == CHOOSE r \in rows :
                    \A q \in rows : q.version_number <= r.version_number
       IN  <<top>> \o OrderByVersionDesc(rows \ {top})

(* ------------------------------- reads --------------------------------- *)

\* getPromptById: [status, row]
GetPromptById(idInput) ==
  LET r == ResolvePromptId(idInput)
  IN  IF r.status # "ok" THEN [status |-> r.status, row |-> NULL]
      ELSE [status |-> "ok", row |-> ReadRow(prompts[r.id])]

\* getPromptVersions querying the versions with its argument as given,
\* without resolving it first.
ListVersionsUnresolved(stored, versions, idInput) ==
  [status |-> "ok",
   rows |-> ReadVersions(
              OrderByVersionDesc({q \in versions : q.prompt_id = idInput}))]

\* getPromptVersions over the stored ids and the version rows given:
\* [status, rows], rows newest first
ListVersions(stored, versions, idInput) ==
  LET r == ResolveIn(stored, idInput)
  IN  IF r.status # "ok" THEN [status |-> r.status, rows |-> <<>>]
      ELSE [status |-> "ok",
            rows |-> ReadVersions(
                       OrderByVersionDesc({q \in versions : q.prompt_id = r.id}))]

\* getPromptVersions in the current state
GetPromptVersions(idInput) == ListVersions(DOMAIN prompts, prompt_versions, idInput)

\* getPromptVersion falling back on the newest version when the number asked
\* for is not stored.
GetPromptVersionNewest(idInput, versionNumber) ==
  LET r == ResolvePromptId(idInput)
  IN  IF r.status # "ok" THEN [status |-> r.status, row |-> NULL]
      ELSE LET rows == {q \in VersionsOf(r.id) : q.version_number = versionNumber}
           IN  IF rows # {}
               THEN [status |-> "ok", row |-> ReadVersion(CHOOSE q \in rows : TRUE)]
               ELSE IF VersionsOf(r.id) = {}
               THEN [status |-> "versionnotfound", row |-> NULL]
               ELSE [status |-> "ok",
                     row |-> ReadVersion(OrderByVersionDesc(VersionsOf(r.id))[1])]

\* getPromptVersion: [status, row]
GetPromptVersion(idInput, versionNumber) ==
  LET r == ResolvePromptId(idInput)
  IN  IF r.status # "ok" THEN [status |-> r.status, row |-> NULL]
      ELSE LET rows == {q \in VersionsOf(r.id) : q.version_number = versionNumber}
           IN  IF rows = {} THEN [status |-> "versionnotfound", row |-> NULL]
               ELSE [status |-> "ok", row |-> ReadVersion(CHOOSE q \in rows : TRUE)]

(* ------------------------------- state --------------------------------- *)

\* The record of the most recent step: the call (op, the id argument, the
\* version number argument, the fields passed, what the embeddings endpoint
\* did) and its outcome (status, the value the call resolved with).
Step(op, id, n, api, status) ==
  [op |-> op, id |-> id, n |-> n, data |-> NULL, api |-> api,
   status |-> status, value |-> NULL]

Init ==
  /\ variant \in {"db", "tags"}
  /\ prompts = <<>>
  /\ prompt_versions = {}
  /\ prompt_embeddings = <<>>
  /\ pending = {}
  /\ calls = <<>>
  /\ last = Step("setupDatabase", <<>>, 0, "none", "ok")

\* uuidv4(): an id the store has never held.
Fresh(id) ==
  /\ id \notin DOMAIN prompts
  /\ id \notin DOMAIN prompt_embeddings
  /\ id \notin pending
  /\ VersionsOf(id) = {}
  /\ \A i \in 1..Len(calls) :
       /\ calls[i].id # id
       /\ calls[i].op = "generateEmbeddingsForAllPrompts"
          => \A k \in 1..Len(calls[i].data) : calls[i].data[k] # id

(* ------------------------------ writes --------------------------------- *)

\* createPrompt, id being what uuidv4() returns
createPrompt(id, fields) ==
  /\ Fresh(id)
  /\ IF PromptNotNullFails(fields)
     THEN /\ last' = [Step("createPrompt", <<>>, 0, "none", "constraint")
                       EXCEPT !.data = fields]
          /\ UNCHANGED <<calls, variant, prompts, prompt_versions, prompt_embeddings, pending>>
     ELSE /\ prompts' = PutPrompt(id, StoredRow(fields))
          /\ IF variant = "db"
             THEN \* the initial version; no embedding is requested; the
                  \* call resolves with the row it selects
                  /\ prompt_versions' =
                       prompt_versions \cup {VersionRow(id, 1, fields, NULL)}
                  /\ pending' = pending
                  /\ last' = [Step("createPrompt", id, 0, "none", "ok")
                               EXCEPT !.data = fields, !.value = StoredRow(fields)]
             ELSE \* no initial version; the embedding is left to the
                  \* background; the call resolves with
                  \* { id, title, content, category, tags: tags || [] }
                  /\ prompt_versions' = prompt_versions
                  /\ pending' = pending \cup {id}
                  /\ last' = [Step("createPrompt", id, 0, "none", "ok")
                               EXCEPT !.data = fields,
                                      !.value =
                                        WithTags(FieldsOf(fields),
                                                 IF "tags" \in DOMAIN fields
                                                 THEN fields.tags ELSE <<>>)]
          /\ UNCHANGED <<calls, variant, prompt_embeddings>>

\* updatePrompt awaiting generateAndSaveEmbedding before it resolves.
updatePromptAwaitingRefresh(idInput, dataToUpdate, change_reason) ==
  LET r == ResolvePromptId(idInput)
      fullId == r.id
      nextVersion == MaxVersionNumber(fullId) + 1
      version == VersionRow(fullId, nextVersion, GetPromptById(fullId).row,
                            "Updated prompt")
  IN  IF r.status # "ok" \/ PromptNotNullFails(dataToUpdate)
      THEN /\ last' = [Step("updatePrompt", idInput, 0, "none", "failed")
                        EXCEPT !.data = dataToUpdate]
           /\ UNCHANGED <<calls, variant, prompts, prompt_versions, prompt_embeddings, pending>>
      ELSE /\ nextVersion <= MaxVersion
           /\ prompt_versions' = prompt_versions \cup {version}
           /\ prompts' = PutPrompt(fullId, StoredRow(dataToUpdate))
           /\ prompt_embeddings' =
                [k \in DOMAIN prompt_embeddings \cup {fullId} |->
                   IF k = fullId
                   THEN [length |-> SimpleEmbeddingLength,
                         text |-> <<dataToUpdate.title, dataToUpdate.content>>,
                         vec |-> <<5, 0>>]
                   ELSE prompt_embeddings[k]]
           /\ last' = [Step("updatePrompt", idInput, 0, "none", "ok")
                        EXCEPT !.data = dataToUpdate,
                               !.value = ReadRow(prompts'[fullId])]
           /\ UNCHANGED <<calls, variant, pending>>

updatePrompt(idInput, dataToUpdate, change_reason) ==
  LET r == ResolvePromptId(idInput)
      fullId == r.id
      nextVersion == MaxVersionNumber(fullId) + 1
      currentPrompt == GetPromptById(fullId).row
      version == VersionRow(fullId, nextVersion, currentPrompt,
                            IF change_reason = NULL THEN "Updated prompt"
                            ELSE change_reason)
  IN  IF r.status # "ok"
      THEN /\ last' = [Step("updatePrompt", idInput, 0, "none", r.status)
                        EXCEPT !.data = dataToUpdate]
           /\ UNCHANGED <<calls, variant, prompts, prompt_versions, prompt_embeddings, pending>>
      ELSE /\ nextVersion <= MaxVersion
           /\ IF InsertVersionFails(version)
              THEN /\ last' = [Step("updatePrompt", idInput, 0, "none", "constraint")
                                EXCEPT !.data = dataToUpdate]
                   /\ UNCHANGED <<calls, variant, prompts, prompt_versions, prompt_embeddings, pending>>
              ELSE /\ prompt_versions' = prompt_versions \cup {version}
                   /\ IF PromptNotNullFails(dataToUpdate)
                      THEN \* the UPDATE is refused; the version row stays
                           /\ last' = [Step("updatePrompt", idInput, 0, "none", "constraint")
                                        EXCEPT !.data = dataToUpdate]
                           /\ UNCHANGED <<calls, variant, prompts, prompt_embeddings, pending>>
                      ELSE /\ prompts' = PutPrompt(fullId, StoredRow(dataToUpdate))
                           /\ pending' = pending \cup {fullId}
                           /\ last' = [Step("updatePrompt", idInput, 0, "none", "ok")
                                        EXCEPT !.data = dataToUpdate,
                                               !.value = ReadRow(prompts'[fullId])]
                           /\ UNCHANGED <<calls, variant, prompt_embeddings>>

\* The version_number restorePromptVersion gives the snapshot it writes.
RestoreVersionNumber(fullId, versionToRestore) ==
  IF variant = "db" THEN versionToRestore.version_number + 1
  ELSE MaxVersionNumber(fullId) + 1

\* The change_reason restorePromptVersion writes.
RestoreReason(versionNumber, change_reason) ==
  IF variant = "db" \/ change_reason # NULL THEN change_reason
  ELSE <<"Restored to version", versionNumber>>

restorePromptVersion(idInput, versionNumber, change_reason) ==
  LET r == ResolvePromptId(idInput)
      fullId == r.id
      found == GetPromptVersion(fullId, versionNumber)
      versionToRestore == found.row
      currentPrompt == GetPromptById(fullId).row
      version == VersionRow(fullId, RestoreVersionNumber(fullId, versionToRestore),
                            currentPrompt,
                            RestoreReason(versionNumber, change_reason))
  IN  IF r.status # "ok"
      THEN /\ last' = Step("restorePromptVersion", idInput, versionNumber, "none", r.status)
           /\ UNCHANGED <<calls, variant, prompts, prompt_versions, prompt_embeddings, pending>>
      ELSE IF found.status # "ok"
      THEN /\ last' = Step("restorePromptVersion", idInput, versionNumber, "none", found.status)
           /\ UNCHANGED <<calls, variant, prompts, prompt_versions, prompt_embeddings, pending>>
      ELSE /\ version.version_number <= MaxVersion
           /\ IF InsertVersionFails(version)
              THEN \* db.js rejects; in the tag-bearing module the error is
                   \* thrown inside the serialize callback and nobody settles
                   \* the promise
                   /\ last' = Step("restorePromptVersion", idInput, versionNumber, "none",
                                   IF variant = "db" THEN "constraint" ELSE "unsettled")
                   /\ UNCHANGED <<calls, variant, prompts, prompt_versions, prompt_embeddings, pending>>
              ELSE /\ prompt_versions' = prompt_versions \cup {version}
                   /\ prompts' = PutPrompt(fullId, StoredRow(versionToRestore))
                   /\ last' = [Step("restorePromptVersion", idInput, versionNumber, "none", "ok")
                                EXCEPT !.value = ReadRow(prompts'[fullId])]
                   /\ UNCHANGED <<calls, variant, prompt_embeddings, pending>>

deletePrompt(idInput) ==
  LET r == ResolvePromptId(idInput)
  IN  IF r.status # "ok"
      THEN /\ last' = Step("deletePrompt", idInput, 0, "none", r.status)
           /\ UNCHANGED <<calls, variant, prompts, prompt_versions, prompt_embeddings, pending>>
      ELSE /\ prompts' = DropPrompts({r.id})
           /\ prompt_versions' = CascadeVersions({r.id})
           /\ prompt_embeddings' = CascadeEmbeddings({r.id})
           /\ last' = Step("deletePrompt", idInput, 0, "none", "ok")
           /\ UNCHANGED <<calls, variant, pending>>

deleteAllPrompts ==
  /\ prompts' = DropPrompts(DOMAIN prompts)
  /\ prompt_versions' = CascadeVersions(DOMAIN prompts)
  /\ prompt_embeddings' = CascadeEmbeddings(DOMAIN prompts)
  /\ last' = Step("deleteAllPrompts", <<>>, 0, "none", "ok")
  /\ UNCHANGED <<calls, variant, pending>>

\* importData of one prompt that carries its id: INSERT OR REPLACE INTO
\* prompts.  REPLACE deletes the row that holds the id before it inserts,
\* and with foreign keys on that delete cascades.
importData(id, fields) ==
  IF PromptNotNullFails(fields)
  THEN /\ last' = [Step("importData", id, 0, "none", "constraint") EXCEPT !.data = fields]
       /\ UNCHANGED <<calls, variant, prompts, prompt_versions, prompt_embeddings, pending>>
  ELSE /\ prompts' = PutPrompt(id, StoredRow(fields))
       /\ prompt_versions' = CascadeVersions({id} \cap DOMAIN prompts)
       /\ prompt_embeddings' = CascadeEmbeddings({id} \cap DOMAIN prompts)
       /\ last' = [Step("importData", id, 0, "none", "ok") EXCEPT !.data = fields]
       /\ UNCHANGED <<calls, variant, pending>>

(* ----------------------------- embeddings ------------------------------ *)

\* A vector is kept as its length, the text it was made of and vec, its
\* direction: two components in place of the 384 or 1536, every direction of
\* norm 5.
UnitVectors == << <<5, 0>>, <<4, 3>>, <<3, 4>>, <<0, 5>> >>

\* What the Math.random() draws of one run of the fallback generator add up
\* to: the steps by which they turn the vector.
RandomDraws == {0, 1}

\* text.toLowerCase().split(/\s+/).length, the parts of a text being single
\* words
WordCount(text) == Len(text)

\* generateSimpleEmbedding: every component starts at
\* (Math.random() - 0.5) * 0.1, the features of the text are added (kept
\* here: the word count) and the vector is normalised.
generateSimpleEmbedding(text, random) ==
  [length |-> SimpleEmbeddingLength, text |-> text,
   vec |-> UnitVectors[((WordCount(text) + random) % Len(UnitVectors)) + 1]]

\* generateEmbedding: only an answered OpenAI call gives an OpenAI vector,
\* which the text alone decides; without a key and on every failure the
\* fallback generator runs.
generateEmbedding(text, api, random) ==
  IF api = "ok"
  THEN [length |-> OpenAIEmbeddingLength, text |-> text,
        vec |-> UnitVectors[(WordCount(text) % Len(UnitVectors)) + 1]]
  ELSE generateSimpleEmbedding(text, random)

\* `${prompt.title} ${prompt.content}`, and in the tag-bearing module
\* `${prompt.title} ${prompt.content} ${prompt.tags || ''}`
EmbeddingText(prompt) ==
  IF variant = "tags" THEN <<prompt.title, prompt.content, TagsString(prompt)>>
  ELSE <<prompt.title, prompt.content>>

\* saveEmbedding: INSERT OR REPLACE INTO prompt_embeddings
PutEmbedding(promptId, embedding) ==
  [k \in DOMAIN prompt_embeddings \cup {promptId} |->
     IF k = promptId THEN embedding ELSE prompt_embeddings[k]]

\* The store effect and the success flag of generateAndSaveEmbedding.  The
\* row is saved under the promptId argument as given.
SaveEmbeddingFor(promptId, api, random, success) ==
  LET got == GetPromptById(promptId)
  IN  IF got.status # "ok" \/ InsertEmbeddingFails(promptId)
      THEN /\ success = FALSE
           /\ prompt_embeddings' = prompt_embeddings
      ELSE /\ success = TRUE
           /\ prompt_embeddings' =
                PutEmbedding(promptId,
                             generateEmbedding(EmbeddingText(got.row), api, random))

\* generateAndSaveEmbedding called through POST /api/prompts/:id/embedding
generateAndSaveEmbedding(promptId, api) ==
  \E success \in BOOLEAN, random \in RandomDraws :
    /\ SaveEmbeddingFor(promptId, api, random, success)
    /\ last' = Step("generateAndSaveEmbedding", promptId, 0, api,
                    IF success THEN "ok" ELSE "failed")
    /\ UNCHANGED <<calls, variant, prompts, prompt_versions, pending>>

\* A generateAndSaveEmbedding that a write left running in the background.
backgroundEmbedding(promptId, api) ==
  /\ promptId \in pending
  /\ \E success \in BOOLEAN, random \in RandomDraws :
       /\ SaveEmbeddingFor(promptId, api, random, success)
       /\ last' = Step("backgroundEmbedding", promptId, 0, api,
                       IF success THEN "ok" ELSE "failed")
  /\ pending' = pending \ {promptId}
  /\ UNCHANGED <<calls, variant, prompts, prompt_versions>>

(* ------------------------------ searches ------------------------------- *)

\* Scores are integers in units of 1/Scale.  Every quotient a search takes
\* (by the number of lexical results, by the norms of two vectors, by the
\* unit of a weight) divides Scale, so the arithmetic is exact.
Scale == 1500

\* hybridSearch: limit = 10; ftsWeight = 0.6 and semanticWeight = 0.4, in
\* tenths
DefaultLimit == 10

WeightUnit == 10

FtsWeight == 6

SemanticWeight == 4

Max(a, b) == IF a >= b THEN a ELSE b

Min(a, b) == IF a <= b THEN a ELSE b

\* The column values in use, each a single word, with the token the FTS5
\* tokenizer makes of it (it folds case).  NULL and '' have no token.
FoldTable ==
  { <<"VersionTest", "versiontest">>, <<"Original", "original">>,
    <<"Renamed", "renamed">>, <<"Updated", "updated">>, <<"Test", "test">>,
    <<"JavaScript", "javascript">>, <<"javascript", "javascript">>,
    <<"code", "code">>, <<"Coding", "coding">>, <<"Python", "python">>,
    <<"data", "data">>, <<"Creative", "creative">>, <<"Writing", "writing">> }

Tokens(value) == {p[2] : p \in {q \in FoldTable : q[1] = value}}

\* The pairs <<term, token>> where term is a proper prefix of token.
ProperPrefixes == { <<"c", "code">>, <<"c", "coding">>, <<"c", "creative">> }

\* The FTS5 query  query + '*'  matches a token that starts with the term.
StartsWith(token, term) == token = term \/ <<term, token>> \in ProperPrefixes

\* The indexed columns of prompts_fts.  The tag-bearing module indexes tags
\* as well; no search of the model runs over a store with tags.
FtsColumns == {"title", "content", "category"}

\* prompts_fts MATCH ?
FtsMatch(row, query) ==
  \E c \in FtsColumns : \E t \in Tokens(row[c]) : StartsWith(t, query)

\* The ids ftsSearch selects: the rows that match, with category = ? when a
\* category is passed.
FtsRows(query, category) ==
  { id \in DOMAIN prompts :
      /\ FtsMatch(prompts[id], query)
      /\ category = NULL \/ prompts[id].category = category }

\* Every order in which a query may return the rows of ids.
Orders(ids) ==
  { seq \in [1..Cardinality(ids) -> ids] :
      \A i, j \in 1..Cardinality(ids) : seq[i] = seq[j] => i = j }

\* The columns of prompts a result row keeps.
ResultRow(id) == [id |-> id, category |-> prompts[id].category]

\* ftsSearch: the rows in the order ORDER BY search_rank DESC, updated_at
\* DESC puts them in.  search_rank rests on the rank the engine computes
\* and on the timestamps, so the order is given.
FtsSearch(order) == [i \in 1..Len(order) |-> ResultRow(order[i])]

\* cosineSimilarity throws unless both vectors have the same length.
CosineSimilarityThrows(vecA, vecB) == vecA.length # vecB.length

Dot(a, b) == a[1] * b[1] + a[2] * b[2]

\* Math.sqrt of the squared norm of a direction
Norm(a) == CHOOSE n \in 0..(a[1] + a[2]) : n * n = Dot(a, a)

\* cosineSimilarity: dotProduct / (Math.sqrt(normA) * Math.sqrt(normB))
cosineSimilarity(vecA, vecB) ==
  (Dot(vecA.vec, vecB.vec) * Scale) \div (Norm(vecA.vec) * Norm(vecB.vec))

\* The rows of  prompt_embeddings pe JOIN prompts p ON pe.prompt_id = p.id
JoinedEmbeddings == DOMAIN prompt_embeddings \cap DOMAIN prompts

\* sort((a, b) => b.score - a.score) on positions: position i goes behind
\* every position sorted so far whose score is not lower (the sort is
\* stable).
RECURSIVE InsertDesc(_, _, _)
InsertDesc(sorted, i, score) ==
  IF sorted = <<>> THEN <<i>>
  ELSE IF score[Head(sorted)] >= score[i]
       THEN <<Head(sorted)>> \o InsertDesc(Tail(sorted), i, score)
       ELSE <<i>> \o sorted

RECURSIVE SortedPositions(_, _)
SortedPositions(k, score) ==
  IF k = 0 THEN <<>>
  ELSE InsertDesc(SortedPositions(k - 1, score), k, score)

\* SortDesc leaving the rows in the order they came in.
SortDescKeepsOrder(rows, score) == rows

\* rows in descending order of score, score[i] being the score of rows[i]
SortDesc(rows, score) ==
  LET at == SortedPositions(Len(rows), score)
  IN  [j \in 1..Len(rows) |-> rows[at[j]]]

\* Slice keeping the last limit rows: rows.slice(-limit)
SliceTail(rows, limit) ==
  SubSeq(rows, Len(rows) - Min(limit, Len(rows)) + 1, Len(rows))

\* rows.slice(0, limit)
Slice(rows, limit) == SubSeq(rows, 1, Min(limit, Len(rows)))

\* The order in which the SELECT of semanticSearch, which has no ORDER BY,
\* returns the joined rows: one order for one set of rows, SQLite's choice.
ScanOrder == CHOOSE seq \in Orders(JoinedEmbeddings) : TRUE

\* semanticSearch once the query is embedded: [status, rows]
SemanticSearch(queryEmbedding, limit) ==
  LET scan == ScanOrder IN
  IF \E k \in JoinedEmbeddings :
       CosineSimilarityThrows(queryEmbedding, prompt_embeddings[k])
  THEN [status |-> "dimension", rows |-> <<>>]
  ELSE LET results ==
             [i \in 1..Len(scan) |->
                [id |-> scan[i], category |-> prompts[scan[i]].category,
                 similarity |-> cosineSimilarity(queryEmbedding,
                                                 prompt_embeddings[scan[i]]),
                 search_type |-> "semantic"]]
           score == [i \in 1..Len(scan) |-> results[i].similarity]
       IN  [status |-> "ok", rows |-> Slice(SortDesc(results, score), limit)]

\* FtsScore counting the results from one: 1 - ((index + 1) / length)
FtsScoreOneBased(index, length) ==
  Scale - ((index + 1) * Scale) \div Max(length, 1)

\* 1 - (index / Math.max(ftsResults.length, 1))
FtsScore(index, length) == Scale - (index * Scale) \div Max(length, 1)

\* score * weight
Weighted(score, weight) == (score * weight) \div WeightUnit

InRows(rows, id) == \E i \in 1..Len(rows) : rows[i].id = id

RowOf(rows, id) == rows[CHOOSE i \in 1..Len(rows) : rows[i].id = id]

\* The values of resultMap after both forEach loops, in insertion order:
\* the lexical results, merged with their semantic result where there is
\* one, then the semantic results that are new.
ResultMap(ftsResults, semanticResults, ftsWeight, semanticWeight) ==
  LET ftsEntry(i) ==
        LET result == ftsResults[i]
            fts == FtsScore(i - 1, Len(ftsResults))
        IN  IF InRows(semanticResults, result.id)
            THEN LET semantic == RowOf(semanticResults, result.id).similarity
                 IN  [id |-> result.id, category |-> result.category,
                      fts_score |-> fts, semantic_score |-> semantic,
                      search_types |-> <<"fts", "semantic">>,
                      hybrid_score |-> Weighted(fts, ftsWeight)
                                         + Weighted(semantic, semanticWeight)]
            ELSE [id |-> result.id, category |-> result.category,
                  fts_score |-> fts, semantic_score |-> 0,
                  search_types |-> <<"fts">>,
                  hybrid_score |-> Weighted(fts, ftsWeight)]
      semanticOnly ==
        SelectSeq(semanticResults, LAMBDA r : ~InRows(ftsResults, r.id))
      semanticEntry(i) ==
        LET result == semanticOnly[i]
        IN  [id |-> result.id, category |-> result.category,
             fts_score |-> 0, semantic_score |-> result.similarity,
             search_types |-> <<"semantic">>,
             hybrid_score |-> Weighted(result.similarity, semanticWeight)]
  IN  [i \in 1..Len(ftsResults) |-> ftsEntry(i)]
        \o [i \in 1..Len(semanticOnly) |-> semanticEntry(i)]

\* SearchType naming the search that found the record first: search_types[0]
SearchTypeFirst(search_types) == search_types[1]

\* search_types.length > 1 ? 'hybrid' : search_types[0]
SearchType(search_types) ==
  IF Len(search_types) > 1 THEN "hybrid" ELSE search_types[1]

\* hybridSearch once both searches have answered: the merged entries sorted
\* by hybrid_score, cut to limit and labelled.
HybridResults(ftsResults, semanticResults, limit, ftsWeight, semanticWeight) ==
  LET entries == ResultMap(ftsResults, semanticResults, ftsWeight, semanticWeight)
      score == [i \in 1..Len(entries) |-> entries[i].hybrid_score]
      top == Slice(SortDesc(entries, score), limit)
  IN  [i \in 1..Len(top) |->
         [id |-> top[i].id, category |-> top[i].category,
          fts_score |-> top[i].fts_score,
          semantic_score |-> top[i].semantic_score,
          hybrid_score |-> top[i].hybrid_score,
          search_type |-> SearchType(top[i].search_types)]]

\* What a search step records of its run: the query and the category filter,
\* the embedding of the query and the rows the two searches answered with.
SearchData(query, category, queryEmbedding, ftsResults, semanticResults) ==
  [query |-> query, category |-> category, queryEmbedding |-> queryEmbedding,
   fts |-> ftsResults, semantic |-> semanticResults]

semanticSearch(query, limit, api) ==
  \E random \in RandomDraws :
    LET queryEmbedding == generateEmbedding(<<query>>, api, random)
        found == SemanticSearch(queryEmbedding, limit)
    IN  /\ last' = [Step("semanticSearch", <<>>, limit, api, found.status)
                      EXCEPT !.data = SearchData(query, NULL, queryEmbedding,
                                                 <<>>, found.rows),
                             !.value = IF found.status = "ok" THEN found.rows
                                       ELSE NULL]
        /\ UNCHANGED <<calls, variant, prompts, prompt_versions, prompt_embeddings, pending>>

\* Which of the two searches hybridSearch starts settles first.
CompletionOrders == {"fts", "semantic"}

\* Taking what has settled when the first of the two searches settles.
PromiseAllFirstSettled(first, ftsResults, found) ==
  IF first = "fts"
  THEN [fts |-> ftsResults, semantic |-> [status |-> found.status, rows |-> <<>>]]
  ELSE [fts |-> <<>>, semantic |-> found]

\* Promise.all([ftsSearch(...), semanticSearch(...)]): the values in the
\* order of the array passed, once both have settled.
PromiseAll(first, ftsResults, found) ==
  [fts |-> ftsResults, semantic |-> found]

\* The record of a hybrid run, with the search that settled first.
WithFirst(data, first) ==
  [k \in DOMAIN data \cup {"first"} |-> IF k = "first" THEN first ELSE data[k]]

\* hybridSearch awaits Promise.all([ftsSearch(query, { category }),
\* semanticSearch(query, limit * 2)]) and rethrows what either throws.
HybridStep(op, query, category, limit, api, first) ==
  \E random \in RandomDraws, order \in Orders(FtsRows(query, category)) :
    LET queryEmbedding == generateEmbedding(<<query>>, api, random)
        ftsResults == FtsSearch(order)
        found == SemanticSearch(queryEmbedding, limit * 2)
        both == PromiseAll(first, ftsResults, found)
    IN  last' = [Step(op, <<>>, limit, api, found.status)
                   EXCEPT !.data = WithFirst(SearchData(query, category,
                                                        queryEmbedding,
                                                        ftsResults, found.rows),
                                             first),
                          !.value = IF both.semantic.status = "ok"
                                    THEN HybridResults(both.fts, both.semantic.rows,
                                                       limit, FtsWeight, SemanticWeight)
                                    ELSE NULL]

hybridSearch(query, category, limit, api, first) ==
  /\ HybridStep("hybridSearch", query, category, limit, api, first)
  /\ UNCHANGED <<calls, variant, prompts, prompt_versions, prompt_embeddings, pending>>

\* getAllPrompts with a search term: hybridSearch(search, { category }) if
\* any embedding row exists, or else ftsSearch(search, { category }).
getAllPrompts(search, category, api, first) ==
  /\ IF DOMAIN prompt_embeddings # {}
     THEN HybridStep("getAllPrompts", search, category, DefaultLimit, api, first)
     ELSE \E order \in Orders(FtsRows(search, category)) :
            last' = [Step("getAllPrompts", <<>>, 0, api, "ok")
                       EXCEPT !.data = SearchData(search, category, NULL,
                                                  FtsSearch(order), <<>>),
                              !.value = FtsSearch(order)]
  /\ UNCHANGED <<calls, variant, prompts, prompt_versions, prompt_embeddings, pending>>

(* --------------------------- specification ----------------------------- *)

\* The version history: every handler that writes prompts or versions.
Next ==
  \/ \E id \in Ids, fields \in PromptInputs : createPrompt(id, fields)
  \/ \E idInput \in IdInputs, fields \in PromptInputs, reason \in ChangeReasons :
       updatePrompt(idInput, fields, reason)
  \/ \E idInput \in IdInputs, n \in 1..MaxVersion, reason \in ChangeReasons :
       restorePromptVersion(idInput, n, reason)
  \/ \E idInput \in IdInputs : deletePrompt(idInput)
  \/ deleteAllPrompts
  \/ \E id \in Ids, fields \in PromptInputs : importData(id, fields)

Spec == Init /\ [][Next]_vars

\* Embeddings: the writes that request one, the refresh itself, the delete
\* that cascades to it and the searches that read the stored vectors.
NextEmbed ==
  \/ \E id \in Ids, fields \in ValidFields : createPrompt(id, fields)
  \/ \E id \in Ids, fields \in ValidFields : updatePrompt(id, fields, NULL)
  \/ \E id \in Ids : deletePrompt(id)
  \/ \E idInput \in IdInputs, api \in ApiOutcomes : generateAndSaveEmbedding(idInput, api)
  \/ \E id \in Ids, api \in ApiOutcomes : backgroundEmbedding(id, api)
  \/ \E api \in ApiOutcomes : semanticSearch(EmbedQuery, DefaultLimit, api)
  \/ \E api \in ApiOutcomes : hybridSearch(EmbedQuery, NULL, DefaultLimit, api, "fts")
  \/ \E api \in ApiOutcomes : getAllPrompts(EmbedQuery, NULL, api, "fts")

SpecEmbed == Init /\ [][NextEmbed]_vars

\* The searches over up to three prompts, with and without embeddings, no
\* OPENAI_API_KEY being configured.
NextSearch ==
  \/ \E id \in SearchIds : createPrompt(id, SearchBody[id])
  \/ \E id \in SearchIds : generateAndSaveEmbedding(id, "nokey")
  \/ \E query \in SearchQueries, limit \in 1..MaxLimit :
       semanticSearch(query, limit, "nokey")
  \/ \E query \in SearchQueries, category \in SearchCategories,
        limit \in 1..MaxLimit, first \in CompletionOrders :
       hybridSearch(query, category, limit, "nokey", first)
  \/ \E query \in SearchQueries, category \in SearchCategories :
       getAllPrompts(query, category, "nokey", "fts")

SpecSearch == Init /\ [][NextSearch]_vars

\* _resolvePromptId called on its own
resolvePromptId(idInput) ==
  LET r == ResolvePromptId(idInput)
  IN  /\ last' = [Step("_resolvePromptId", idInput, 0, "none", r.status)
                    EXCEPT !.value = r.id]
      /\ UNCHANGED <<calls, variant, prompts, prompt_versions, prompt_embeddings, pending>>

\* Id resolution over every store of up to three prompts.
NextResolve ==
  \/ \E id \in ResolveIds, fields \in ValidFields : createPrompt(id, fields)
  \/ \E idInput \in ResolveInputs : deletePrompt(idInput)
  \/ \E idInput \in ResolveInputs : resolvePromptId(idInput)

SpecResolve == Init /\ [][NextResolve]_vars

\* getPromptById called on its own
getPromptById(idInput) ==
  LET got == GetPromptById(idInput)
  IN  /\ last' = [Step("getPromptById", idInput, 0, "none", got.status)
                    EXCEPT !.value = got.row]
      /\ UNCHANGED <<calls, variant, prompts, prompt_versions, prompt_embeddings, pending>>

\* Writing a prompt and reading it back, over bodies with tags and with
\* empty strings.
NextCreate ==
  \/ \E id \in Ids, fields \in CreateInputs : createPrompt(id, fields)
  \/ \E id \in Ids, fields \in CreateInputs : importData(id, fields)
  \/ \E idInput \in IdInputs : getPromptById(idInput)
  \/ \E idInput \in IdInputs : deletePrompt(idInput)

SpecCreate == Init /\ [][NextCreate]_vars

(* ------------------------------ claims --------------------------------- *)

\* The id a step's id argument resolved to, in the state the step started in.
ResolvedId(step) == ResolvePromptId(step.id).id

\* The title, content and category of a row, and its tags column where the
\* table has one.
Columns(row) ==
  [k \in DOMAIN row \cap {"title", "content", "category", "tags"} |-> row[k]]

\* C1: restorePromptVersion(id, v) succeeds for every version number v in
\* the history of the prompt, logs exactly one new version holding the live
\* fields from before the restore, and leaves the live prompt with the
\* fields of version v.
C1_RestoreAnyVersion ==
  [][ ( /\ last'.op = "restorePromptVersion"
        /\ GetPromptVersion(last'.id, last'.n).status = "ok" )
      => LET id == ResolvedId(last')
             v  == GetPromptVersion(last'.id, last'.n).row
         IN  /\ last'.status = "ok"
             /\ \E new \in prompt_versions' \ prompt_versions :
                  /\ prompt_versions' = prompt_versions \cup {new}
                  /\ new.prompt_id = id
                  /\ Columns(new) = Columns(prompts[id])
             /\ FieldsOf(prompts'[id]) = FieldsOf(v) ]_vars

\* The number of versions createPrompt logs.
Baseline == IF variant = "db" THEN 1 ELSE 0

\* The rows are numbered n, n-1, ..., 1 in this order.
DescendingRun(rows) ==
  \A i \in 1..Len(rows) : rows[i].version_number = Len(rows) + 1 - i

\* C2: a created prompt lists the baseline of its variant, every successful
\* updatePrompt makes getPromptVersions list exactly one record more, and
\* the list is a gap-free run of version numbers, newest first.
C2_UpdatesListed ==
  [][ \A idInput \in IdInputs :
        /\ ( last'.op = "createPrompt" /\ last'.status = "ok" /\ last'.id = idInput )
           => LET listed == ListVersions(DOMAIN prompts', prompt_versions', idInput)
              IN  listed.status = "ok" /\ Len(listed.rows) = Baseline
        /\ ( last'.op = "updatePrompt" /\ last'.status = "ok" /\ last'.id = idInput )
           => LET listed == ListVersions(DOMAIN prompts', prompt_versions', idInput)
              IN  /\ listed.status = "ok"
                  /\ Len(listed.rows) = Len(GetPromptVersions(idInput).rows) + 1
                  /\ DescendingRun(listed.rows) ]_vars

\* Two updates in a row have been listed on top of the baseline.
C2_Witness ==
  /\ last.op = "updatePrompt" /\ last.status = "ok"
  /\ Len(GetPromptVersions(last.id).rows) = Baseline + 2

\* The version numbers of every prompt are 1, 2, ..., k without repetition.
GapFree ==
  \A r \in prompt_versions :
    {q.version_number : q \in VersionsOf(r.prompt_id)} =
      1..Cardinality(VersionsOf(r.prompt_id))

\* C4: every version record a step creates is numbered above every version
\* already stored for its prompt, and the numbers of a prompt stay unique
\* and gap-free.
C4_VersionNumbersIncrease ==
  [][ /\ \A new \in prompt_versions' \ prompt_versions :
           \A old \in VersionsOf(new.prompt_id) :
             old.version_number < new.version_number
      /\ GapFree' ]_vars

\* A restore has logged the third version of a prompt.
C4_Witness ==
  /\ last.op = "restorePromptVersion" /\ last.status = "ok"
  /\ \E r \in prompt_versions : r.version_number = 3

\* C3: a failed updatePrompt or restorePromptVersion leaves prompts and
\* prompt_versions as they were.
C3_AllOrNothing ==
  [][ ( /\ last'.op \in {"updatePrompt", "restorePromptVersion"}
        /\ last'.status # "ok" )
      => /\ prompts' = prompts
         /\ prompt_versions' = prompt_versions ]_vars

\* C5: a successful updatePrompt logs exactly one new version, holding the
\* live fields from before the update, and leaves the live prompt with the
\* fields it was passed.
C5_UpdateSnapshotsOld ==
  [][ ( last'.op = "updatePrompt" /\ last'.status = "ok" )
      => LET id == ResolvedId(last')
         IN  /\ \E new \in prompt_versions' \ prompt_versions :
                  /\ prompt_versions' = prompt_versions \cup {new}
                  /\ new.prompt_id = id
                  /\ Columns(new) = Columns(prompts[id])
             /\ FieldsOf(prompts'[id]) = FieldsOf(last'.data) ]_vars

\* An update has replaced fields: the newest version differs from the live
\* prompt.
C5_Witness ==
  /\ last.op = "updatePrompt" /\ last.status = "ok"
  /\ GetPromptVersions(last.id).status = "ok"
  /\ FieldsOf(GetPromptVersions(last.id).rows[1])
       # FieldsOf(GetPromptById(last.id).row)

\* C6: a version record stays as it is until its prompt is deleted by
\* deletePrompt or deleteAllPrompts; no other step changes or removes it.
C6_VersionsImmutable ==
  [][ \A r \in prompt_versions :
        \/ r \in prompt_versions'
        \/ /\ last'.op \in {"deletePrompt", "deleteAllPrompts"}
           /\ r.prompt_id \in DOMAIN prompts
           /\ r.prompt_id \notin DOMAIN prompts' ]_vars

\* C7: after a successful deletePrompt no version row and no embedding row
\* of the deleted prompt is left, in either variant.
C7_DeleteCascades ==
  [][ ( last'.op = "deletePrompt" /\ last'.status = "ok" )
      => LET id == ResolvedId(last')
         IN  /\ \A r \in prompt_versions' : r.prompt_id # id
             /\ id \notin DOMAIN prompt_embeddings' ]_vars

\* C8 as amended: after a successful deletePrompt(id), getPromptById(id)
\* and getPromptVersions(id) both fail with the not-found error of the id
\* resolution.
C8_DeletedIsNotFound ==
  ( last.op = "deletePrompt" /\ last.status = "ok" )
  => /\ GetPromptById(last.id).status = "notfound"
     /\ GetPromptVersions(last.id).status = "notfound"

\* C8 as claimed: after a successful deletePrompt(id), getPromptById(id)
\* fails not-found and getPromptVersions(id) returns an empty list.
C8_DeletedListsEmpty ==
  ( last.op = "deletePrompt" /\ last.status = "ok" )
  => /\ GetPromptById(last.id).status = "notfound"
     /\ GetPromptVersions(last.id).status = "ok"
     /\ GetPromptVersions(last.id).rows = <<>>

\* A prompt was deleted through a prefix of its id.
C8_Witness ==
  last.op = "deletePrompt" /\ last.status = "ok" /\ last.id = <<"a">>

\* p is a literal prefix of s
IsPrefix(p, s) == Len(p) <= Len(s) /\ SubSeq(s, 1, Len(p)) = p

\* C9: a 36-character input resolves to the prompt with exactly that id or
\* fails not-found; a shorter non-blank input resolves iff exactly one
\* stored id starts with it, fails as ambiguous when several do and fails
\* not-found when none does; the store is not modified.
C9_ResolveByPrefix ==
  [][ ( last'.op = "_resolvePromptId" /\ ~IsBlank(last'.id) )
      => LET input == last'.id
             matches == {i \in DOMAIN prompts : IsPrefix(input, i)}
         IN  /\ Len(input) = FullIdLength
                => IF input \in DOMAIN prompts
                   THEN last'.status = "ok" /\ last'.value = input
                   ELSE last'.status = "notfound"
             /\ Len(input) < FullIdLength
                => /\ last'.status = "ok" <=> Cardinality(matches) = 1
                   /\ last'.status = "ok" => last'.value \in matches
                   /\ last'.status = "ambiguous" <=> Cardinality(matches) > 1
                   /\ last'.status = "notfound" <=> Cardinality(matches) = 0
             /\ UNCHANGED <<prompts, prompt_versions, prompt_embeddings>> ]_vars

\* C10: a search whose call to the embeddings endpoint fails still completes
\* with a result list.
C10_SearchSurvivesApiFailure ==
  ( /\ last.op \in {"semanticSearch", "hybridSearch", "getAllPrompts"}
    /\ last.api = "error" )
  => last.status = "ok"

\* The prompt a successful write step wrote.
WrittenId(step) ==
  IF step.op = "createPrompt" THEN step.id ELSE ResolvePromptId(step.id).id

\* C16: every successful createPrompt, updatePrompt and restorePromptVersion
\* leaves a generateAndSaveEmbedding for the prompt it wrote running in the
\* background.
C16_WritesRefreshEmbedding ==
  [][ ( /\ last'.op \in {"createPrompt", "updatePrompt", "restorePromptVersion"}
        /\ last'.status = "ok" )
      => WrittenId(last') \in pending' ]_vars

\* C18: restorePromptVersion(id, n) with no version n stored for the
\* resolved prompt fails with the version-not-found error, inserts no
\* version record and leaves the prompts as they were.
C18_RestoreMissingVersion ==
  [][ ( /\ last'.op = "restorePromptVersion"
        /\ ResolvePromptId(last'.id).status = "ok"
        /\ \A r \in VersionsOf(ResolvedId(last')) : r.version_number # last'.n )
      => /\ last'.status = "versionnotfound"
         /\ prompt_versions' = prompt_versions
         /\ prompts' = prompts ]_vars

\* A restore asked for a version number missing from a history that holds
\* other versions.
C18_Witness ==
  /\ last.op = "restorePromptVersion" /\ last.status = "versionnotfound"
  /\ ResolvePromptId(last.id).status = "ok"
  /\ VersionsOf(ResolvedId(last)) # {}

\* C19: every stored prompt has a title and a content, and neither is the
\* empty string.
C19_TitleAndContentNonEmpty ==
  \A id \in DOMAIN prompts :
    /\ prompts[id].title \notin {NULL, ""}
    /\ prompts[id].content \notin {NULL, ""}

\* C20: getPromptById right after a successful createPrompt returns the
\* title, content and category passed to create, and in the tag-bearing
\* module the tags array passed to it.
C20_CreateThenGet ==
  [][ ( /\ last.op = "createPrompt" /\ last.status = "ok"
        /\ last'.op = "getPromptById" /\ last'.id = last.id )
      => /\ last'.status = "ok"
         /\ FieldsOf(last'.value) = FieldsOf(last.data)
         /\ ( variant = "tags" /\ "tags" \in DOMAIN last.data )
            => last'.value.tags = last.data.tags ]_vars

\* The ids of result rows, in order.
IdsOf(rows) == [i \in 1..Len(rows) |-> rows[i].id]

\* A hybridSearch has answered.
HybridAnswered == last.op = "hybridSearch" /\ last.status = "ok"

\* C11 as amended: with no embedding stored, hybridSearch(q) returns the
\* first limit records of ftsSearch(q), in the order of ftsSearch, every
\* one tagged search_type "fts".
C11_HybridIsFtsUpToLimit ==
  ( HybridAnswered /\ DOMAIN prompt_embeddings = {} )
  => /\ IdsOf(last.value) =
          SubSeq(IdsOf(last.data.fts), 1, Min(last.n, Len(last.data.fts)))
     /\ \A i \in 1..Len(last.value) : last.value[i].search_type = "fts"

\* C11 as claimed: with no embedding stored, hybridSearch(q) returns the
\* records of ftsSearch(q) in the same order, however many match, every one
\* tagged search_type "fts".
C11_HybridEqualsFts ==
  ( HybridAnswered /\ DOMAIN prompt_embeddings = {} )
  => /\ IdsOf(last.value) = IdsOf(last.data.fts)
     /\ \A i \in 1..Len(last.value) : last.value[i].search_type = "fts"

\* With no embedding stored, more records matched than the limit admits.
C11_Witness ==
  /\ HybridAnswered /\ DOMAIN prompt_embeddings = {}
  /\ Len(last.data.fts) > last.n
  /\ Len(last.value) = last.n

\* C12: a search with a category filter returns only prompts of that
\* category, whether or not embeddings are stored.
C12_CategoryFilter ==
  ( /\ last.op \in {"hybridSearch", "getAllPrompts"} /\ last.status = "ok"
    /\ last.data.category # NULL )
  => \A i \in 1..Len(last.value) : last.value[i].category = last.data.category

\* C13: hybridSearch returns no id twice, at most limit entries, and the
\* entries in descending order of hybrid_score.
C13_MergedCutSorted ==
  HybridAnswered
  => /\ \A i, j \in 1..Len(last.value) :
          last.value[i].id = last.value[j].id => i = j
     /\ Len(last.value) <= last.n
     /\ \A i, j \in 1..Len(last.value) :
          i < j => last.value[i].hybrid_score >= last.value[j].hybrid_score

\* A record found by both searches was merged into one entry that outranks
\* the lexical result ahead of it, and the limit cut the list.
C13_Witness ==
  /\ HybridAnswered
  /\ Len(last.data.fts) = 2
  /\ Len(last.value) = last.n
  /\ last.value[1].search_type = "hybrid"
  /\ last.value[1].id = last.data.fts[2].id
  /\ \E i \in 1..Len(last.data.semantic) :
       ~InRows(last.value, last.data.semantic[i].id)

\* C14: in every entry of hybridSearch, fts_score is 1 - i/N for the i-th
\* (from 0) of N lexical results and 0 for a record that is not among them,
\* semantic_score is the similarity of the record in the semantic results
\* and 0 for a record that is not among them, and hybrid_score is
\* fts_score * ftsWeight + semantic_score * semanticWeight.
C14_Scores ==
  HybridAnswered
  => \A k \in 1..Len(last.value) :
       LET e == last.value[k]
           fts == last.data.fts
           semantic == last.data.semantic
       IN  /\ \A p \in 1..Len(fts) :
                fts[p].id = e.id
                => e.fts_score * Len(fts) = Scale * (Len(fts) - (p - 1))
           /\ ~InRows(fts, e.id) => e.fts_score = 0
           /\ \A p \in 1..Len(semantic) :
                semantic[p].id = e.id => e.semantic_score = semantic[p].similarity
           /\ ~InRows(semantic, e.id) => e.semantic_score = 0
           /\ e.hybrid_score * WeightUnit =
                e.fts_score * FtsWeight + e.semantic_score * SemanticWeight

\* An entry came from both searches and was not the first lexical result,
\* next to an entry one search alone found.
C14_Witness ==
  /\ HybridAnswered
  /\ \E k \in 1..Len(last.value) :
       /\ last.value[k].fts_score > 0 /\ last.value[k].fts_score < Scale
       /\ last.value[k].semantic_score > 0
  /\ \E k \in 1..Len(last.value) :
       last.value[k].fts_score = 0 \/ last.value[k].semantic_score = 0

\* C15: the search_type of an entry of hybridSearch is "hybrid" iff the
\* record is in the lexical and in the semantic results, "fts" iff it is in
\* the lexical results alone and "semantic" iff it is in the semantic
\* results alone.
C15_SearchType ==
  HybridAnswered
  => \A k \in 1..Len(last.value) :
       LET e == last.value[k]
           lexical == InRows(last.data.fts, e.id)
           semantic == InRows(last.data.semantic, e.id)
       IN  /\ e.search_type = "hybrid" <=> lexical /\ semantic
           /\ e.search_type = "fts" <=> lexical /\ ~semantic
           /\ e.search_type = "semantic" <=> semantic /\ ~lexical

\* One answer holds an entry of both searches and an entry of one.
C15_Witness ==
  /\ HybridAnswered
  /\ \E k \in 1..Len(last.value) : last.value[k].search_type = "hybrid"
  /\ \E k \in 1..Len(last.value) : last.value[k].search_type = "semantic"

\* C17: without an API key, two semanticSearch calls in a row with the same
\* query and limit embed the query as the same vector and return the same
\* ranking.
C17_FallbackDeterministic ==
  [][ ( /\ last.op = "semanticSearch" /\ last'.op = "semanticSearch"
        /\ last.api = "nokey" /\ last'.api = "nokey"
        /\ last'.data.query = last.data.query /\ last'.n = last.n )
      => /\ last'.data.queryEmbedding = last.data.queryEmbedding
         /\ last'.value = last.value ]_vars

\* C28: an id that _resolvePromptId returns for an input shorter than 36
\* characters literally starts with the input, character for character,
\* also when the input holds % or _.
C28_ResolvedIdStartsWithInput ==
  ( /\ last.op = "_resolvePromptId" /\ last.status = "ok"
    /\ Len(last.id) < FullIdLength )
  => IsPrefix(last.id, last.value)

\* C30: every prompt_versions row and every prompt_embeddings row refers to
\* a prompt that is stored.
C30_NoOrphanRows ==
  /\ \A r \in prompt_versions : r.prompt_id \in DOMAIN prompts
  /\ DOMAIN prompt_embeddings \subseteq DOMAIN prompts

\* C22: a successful updatePrompt resolves with the updated prompt while
\* the refresh it started is still to run, having written no embedding;
\* the refresh, whether it then succeeds or fails, changes neither the
\* prompts nor the version records.
C22_RefreshIsBestEffort ==
  [][ /\ ( last'.op = "updatePrompt" /\ last'.status = "ok" )
         => /\ ResolvedId(last') \in pending'
            /\ prompt_embeddings' = prompt_embeddings
            /\ last'.value = ReadRow(prompts'[ResolvedId(last')])
      /\ last'.op = "backgroundEmbedding"
         => /\ last'.status \in {"ok", "failed"}
            /\ prompts' = prompts
            /\ prompt_versions' = prompt_versions ]_vars

\* The refresh an update started has failed, the updated prompt having been
\* deleted before it ran, and the version the update logged is still there.
C22_Witness ==
  /\ last.op = "backgroundEmbedding" /\ last.status = "failed"
  /\ prompt_versions # {}

\* ---------------------------------------------------------------------
\* POST /api/prompts/suggestions (src/server/index.js).  JavaScript values
\* the route inspects with typeof / Array.isArray carry their type.

Value(type, v) == [type |-> type, v |-> v]

\* A text of n characters with a blank at every gap-th position.
Text(n, gap) == [i \in 1..n |-> IF gap > 0 /\ i % gap = 0 THEN " " ELSE "x"]

Padded(s) == <<" ">> \o s \o <<" ">>

\* Request bodies: content empty, too short, short once trimmed, and
\* long enough, on both sides of the thresholds of the fallback.
SuggestionContents ==
  { <<>>, Text(5, 0), Padded(Text(9, 0)), Text(10, 0), Padded(Text(10, 3)),
    Text(49, 5), Text(50, 0), Text(1300, 7) }

SuggestionCategories == {NULL, "General"}

\* content.trim()
Trim(s) ==
  IF IsBlank(s) THEN <<>>
  ELSE LET first == CHOOSE i \in 1..Len(s) :
                      /\ s[i] \notin Whitespace
                      /\ \A j \in 1..(i - 1) : s[j] \in Whitespace
           cut == CHOOSE k \in 0..(Len(s) - 1) :
                    /\ s[Len(s) - k] \notin Whitespace
                    /\ \A j \in (Len(s) - k + 1)..Len(s) : s[j] \in Whitespace
       IN  SubSeq(s, first, Len(s) - cut)

\* content.split(/\s+/).length: one more than the runs of whitespace.
SplitLength(s) ==
  1 + Cardinality({i \in 1..Len(s) :
                     /\ s[i] \in Whitespace
                     /\ (i = 1 \/ s[i - 1] \notin Whitespace)})

DefaultSuggestions ==
  Value("object",
        [clarity |-> "Consider breaking down complex instructions into bullet points",
         specificity |-> "Add more context about the expected output format",
         constraints |-> "Specify any limitations or requirements for the response"])

\* Math.min(100, Math.max(40, 100 - Math.floor(content.length / 20)))
ReadabilityScore(content) ==
  Value("number", Min(100, Max(40, 100 - (Len(content) \div 20))))

\* Math.ceil(content.length / 4)
EstimatedTokens(content) == Value("number", (Len(content) + 3) \div 4)

generateFallbackSuggestions(content, category) ==
  [improvements |->
     Value("array",
           << IF Len(content) < 50
              THEN "Consider expanding your prompt with more specific details"
              ELSE "Consider adding specific examples to make the prompt more concrete",
              IF SplitLength(content) < 10
              THEN "Add more context about what you want to achieve"
              ELSE "You might want to specify the desired output format",
              "Try adding constraints or limitations to get more focused responses" >>),
   estimatedTokens |-> EstimatedTokens(content),
   readabilityScore |-> ReadabilityScore(content),
   suggestions |-> DefaultSuggestions]

\* Documents the model may send as the text of its answer, and what
\* JSON.parse makes of each; any other text makes JSON.parse throw.
Documents ==
  [ null |-> Value("null", NULL),
    five |-> Value("number", 5),
    empty |-> Value("object", <<>>),
    improvements_string |->
      Value("object", [improvements |-> Value("string", "Add an example")]),
    improvements_only |->
      Value("object", [improvements |-> Value("array", <<"Add an example">>)]),
    score_string |->
      Value("object", [improvements |-> Value("array", <<"Add an example">>),
                       readabilityScore |-> Value("string", "85"),
                       suggestions |-> Value("string", "none")]),
    full |->
      Value("object", [improvements |-> Value("array", <<"Add an example">>),
                       readabilityScore |-> Value("number", 85),
                       suggestions |-> Value("object", [clarity |-> "Be clear"])]) ]

\* The markdown fences (three backquotes, with and without "json").
Fences == {"fence_json", "fence"}

\* aiContent without the opening and closing fences, trimmed.
CleanedContent(aiContent) ==
  SelectSeq(aiContent, LAMBDA piece : piece \notin Fences \cup Whitespace)

JSONParse(cleaned) ==
  IF Len(cleaned) = 1 /\ cleaned[1] \in DOMAIN Documents
  THEN Documents[cleaned[1]]
  ELSE Value("throws", "SyntaxError")

\* What the suggestion service does: no key configured, fetch rejecting,
\* a non-2xx status, a body response.json() rejects, or a JSON body.
AnswerWith(t) ==
  [kind |-> "json", data |-> Value("object", [content |-> <<[text |-> t]>>])]

ServiceOutcomes ==
  << [kind |-> "nokey", data |-> NULL],
     [kind |-> "fetch_throws", data |-> NULL],
     [kind |-> "http_error", data |-> NULL],
     [kind |-> "not_json", data |-> NULL],
     [kind |-> "json", data |-> Value("null", NULL)],
     [kind |-> "json", data |-> Value("object", [error |-> "overloaded"])],
     [kind |-> "json", data |-> Value("object", [content |-> <<>>])],
     AnswerWith(<<>>),
     AnswerWith(<<"Here", " ", "you", " ", "go">>),
     AnswerWith(<<"null">>),
     AnswerWith(<<"five">>),
     AnswerWith(<<"empty">>),
     AnswerWith(<<"improvements_string">>),
     AnswerWith(<<"improvements_only">>),
     AnswerWith(<<"score_string">>),
     AnswerWith(<<"full">>),
     AnswerWith(<<"fence_json", "full", "fence">>),
     AnswerWith(<<"full", "full">>) >>

\* The inner try block without the check of the improvements field.
ParsedSuggestionsUnvalidated(content, aiContent) ==
  LET parsed == JSONParse(CleanedContent(aiContent))
  IN  IF parsed.type # "object"
      THEN [ok |-> parsed.type = "number", value |-> <<>>]
      ELSE [ok |-> TRUE, value |-> parsed.v]

\* The inner try block: the parsed and repaired suggestions, or not ok when
\* the block throws (JSON.parse, reading a property of null, or the
\* improvements check).
ParsedSuggestions(content, aiContent) ==
  LET parsed == JSONParse(CleanedContent(aiContent))
      obj == parsed.v
      has(k, type) == k \in DOMAIN obj /\ obj[k].type = type
      keys == DOMAIN obj \cup {"readabilityScore", "suggestions"}
  IN  IF parsed.type \in {"throws", "null"}
      THEN [ok |-> FALSE, value |-> NULL]
      ELSE IF parsed.type # "object" \/ ~has("improvements", "array")
      THEN [ok |-> FALSE, value |-> NULL]
      ELSE [ok |-> TRUE,
            value |-> [k \in keys |->
                         IF k = "readabilityScore" /\ ~has(k, "number")
                         THEN ReadabilityScore(content)
                         ELSE IF k = "suggestions" /\ ~has(k, "object")
                         THEN DefaultSuggestions
                         ELSE obj[k]]]

\* anthropicData.content[0].text is there and truthy.
HasText(data) ==
  /\ data.type = "object"
  /\ "content" \in DOMAIN data.v
  /\ Len(data.v.content) > 0
  /\ data.v.content[1].text # <<>>

Respond(code, body) == [status |-> code, body |-> body]

\* The response of the route.
SuggestionResponse(content, category, service) ==
  IF content = <<>> \/ Len(Trim(content)) < 10
  THEN Respond(400, [error |-> "Content must be at least 10 characters long"])
  ELSE IF service.kind # "json" \/ ~HasText(service.data)
  THEN Respond(200, generateFallbackSuggestions(content, category))
  ELSE LET suggestions ==
             ParsedSuggestions(content, service.data.v.content[1].text)
       IN  IF ~suggestions.ok
           THEN Respond(200, generateFallbackSuggestions(content, category))
           ELSE Respond(200,
                  [k \in DOMAIN suggestions.value \cup {"estimatedTokens"} |->
                     IF k = "estimatedTokens" THEN EstimatedTokens(content)
                     ELSE suggestions.value[k]])

postSuggestions(content, category, service) ==
  /\ last' = [Step("POST /api/prompts/suggestions", <<>>,
                   SuggestionResponse(content, category, service).status,
                   service.kind, "ok")
              EXCEPT !.data = [content |-> content, category |-> category,
                               service |-> service],
                     !.value = SuggestionResponse(content, category, service).body]
  /\ UNCHANGED <<calls, variant, prompts, prompt_versions, prompt_embeddings, pending>>

NextSuggest ==
  \E content \in SuggestionContents, category \in SuggestionCategories,
     i \in 1..Len(ServiceOutcomes) :
    postSuggestions(content, category, ServiceOutcomes[i])

SpecSuggest == Init /\ [][NextSuggest]_vars

\* The number of non-blank characters of a text.
NonBlankCount(s) == Cardinality({i \in 1..Len(s) : s[i] \notin Whitespace})

\* The suggestion service failed: no key, a rejected fetch, an HTTP error,
\* a non-JSON body, a body without the answer text, or an answer that is
\* not a JSON object with an improvements array.
ServiceFailed(service) ==
  \/ service.kind # "json"
  \/ service.data.type # "object"
  \/ "content" \notin DOMAIN service.data.v
  \/ service.data.v.content = <<>>
  \/ LET text == service.data.v.content[1].text
         doc == SelectSeq(text, LAMBDA piece : piece \notin Fences)
     IN  \/ Len(doc) # 1
         \/ doc[1] \notin {"improvements_only", "score_string", "full"}

Ages == {0, 30}

\* The engine's rank in tenths.
EngineRanks == {-3, 0}

\* The pairs <<term, value>> where the folded value holds the term inside.
Substrings == ProperPrefixes \cup { <<"c", "javascript">> }

\* column LIKE '%query%'
LikeContains(value, query) ==
  \E t \in Tokens(value) : t = query \/ <<query, t>> \in Substrings

\* search_rank of a row: 4.0, 2.0 and 1.0 for a title, content and
\* category that hold the query, -0.1 a day of age, rank * 10.  The tag-
\* bearing module adds 3.0 for tags that hold the query; the prompts
\* searched here carry no tags.
SearchRank(row, query, age, rank) ==
  (IF LikeContains(row.title, query) THEN 40 ELSE 0)
  + (IF LikeContains(row.content, query) THEN 20 ELSE 0)
  + (IF row.category # NULL /\ LikeContains(row.category, query) THEN 10 ELSE 0)
  - age + 10 * rank

\* ftsSearch(query, { category }): the matching rows with their search_rank,
\* ORDER BY search_rank DESC, updated_at DESC.
ftsSearch(query, category) ==
  \E age \in [FtsRows(query, category) -> Ages],
     rank \in [FtsRows(query, category) -> EngineRanks],
     order \in Orders(FtsRows(query, category)) :
    LET search_rank(id) == SearchRank(prompts[id], query, age[id], rank[id])
    IN  /\ \A i, j \in 1..Len(order) :
             i < j => \/ search_rank(order[i]) > search_rank(order[j])
                      \/ /\ search_rank(order[i]) = search_rank(order[j])
                         /\ age[order[i]] <= age[order[j]]
        /\ last' = [Step("ftsSearch", <<>>, 0, "none", "ok")
                      EXCEPT !.data = [query |-> query, category |-> category,
                                       age |-> age, rank |-> rank],
                             !.value =
                               [i \in 1..Len(order) |->
                                  [id |-> order[i],
                                   title |-> prompts[order[i]].title,
                                   content |-> prompts[order[i]].content,
                                   category |-> prompts[order[i]].category,
                                   search_rank |-> search_rank(order[i])]]]
        /\ UNCHANGED <<calls, variant, prompts, prompt_versions, prompt_embeddings, pending>>

\* The lexical search and its ranking over up to three prompts.
NextRank ==
  \/ \E id \in SearchIds : createPrompt(id, SearchBody[id])
  \/ \E query \in SearchQueries, category \in SearchCategories :
       ftsSearch(query, category)

SpecRank == Init /\ [][NextRank]_vars

\* C23: in what ftsSearch returns, a row whose title holds the query has a
\* strictly higher search_rank than any row that holds it in its content
\* only.
C23_TitleMatchRanksHigher ==
  last.op = "ftsSearch"
  => \A i, j \in 1..Len(last.value) :
       ( /\ LikeContains(last.value[i].title, last.data.query)
         /\ LikeContains(last.value[j].content, last.data.query)
         /\ ~LikeContains(last.value[j].title, last.data.query)
         /\ ~LikeContains(last.value[j].category, last.data.query) )
       => last.value[i].search_rank > last.value[j].search_rank

\* ---------------------------------------------------------------------
\* Calls that overlap.  A call that has awaited is kept in `calls' with the
\* place it resumes at (pc) and what it holds: the resolved id, the version
\* number it took (n), its argument (data), what it read (snapshot) and,
\* for the batch, the results so far.  Each action is the run of one call
\* from one await to a later one; `last' records the calls that settled.

\* The calls in flight at a time.
MaxCalls == 2

ConcIds == {Uuid(<<"a", "1">>), Uuid(<<"a", "2">>)}

\* The prompt updated and restored while other calls run.
WrittenIds == {Uuid(<<"a", "1">>)}

\* The body the prompts are created with.
FirstFields == [title |-> "VersionTest", content |-> "Original", category |-> NULL]

Call(op, id, pc, n, data, snapshot) ==
  [op |-> op, id |-> id, pc |-> pc, n |-> n, data |-> data,
   snapshot |-> snapshot, results |-> <<>>]

\* calls once call i has settled
Without(i) == SubSeq(calls, 1, i - 1) \o SubSeq(calls, i + 1, Len(calls))

\* updatePrompt up to its SELECT MAX: _resolvePromptId and the read of
\* currentPrompt.
updateStart(idInput, dataToUpdate) ==
  LET got == GetPromptById(idInput)
  IN  /\ Len(calls) < MaxCalls
      /\ IF got.status # "ok"
         THEN /\ last' = [Step("updatePrompt", idInput, 0, "none", "failed")
                           EXCEPT !.data = dataToUpdate]
              /\ UNCHANGED calls
         ELSE /\ calls' = Append(calls, Call("updatePrompt",
                                             ResolvePromptId(idInput).id, "max",
                                             0, dataToUpdate, got.row))
              /\ UNCHANGED last
      /\ UNCHANGED <<variant, prompts, prompt_versions, prompt_embeddings, pending>>

\* restorePromptVersion up to its first statement on prompt_versions:
\* _resolvePromptId, getPromptVersion and the read of currentPrompt.
\* src/server/db.js numbers the new version from the one restored and goes
\* on with the INSERT, the tag-bearing module with SELECT MAX.
restoreStart(idInput, versionNumber) ==
  LET r == ResolvePromptId(idInput)
      found == GetPromptVersion(r.id, versionNumber)
      got == GetPromptById(r.id)
  IN  /\ Len(calls) < MaxCalls
      /\ IF r.status # "ok" \/ found.status # "ok" \/ got.status # "ok"
         THEN /\ last' = Step("restorePromptVersion", idInput, versionNumber, "none",
                              IF r.status # "ok" THEN r.status
                              ELSE IF found.status # "ok" THEN found.status
                              ELSE got.status)
              /\ UNCHANGED calls
         ELSE /\ calls' =
                   Append(calls,
                          IF variant = "db"
                          THEN Call("restorePromptVersion", r.id, "insert",
                                    RestoreVersionNumber(r.id, found.row),
                                    found.row, got.row)
                          ELSE Call("restorePromptVersion", r.id, "max", 0,
                                    found.row, got.row))
              /\ UNCHANGED last
      /\ UNCHANGED <<variant, prompts, prompt_versions, prompt_embeddings, pending>>

\* SELECT MAX(version_number) ... WHERE prompt_id = ?, plus one
selectMax(i) ==
  LET call == calls[i]
      nextVersion == IF call.op = "updatePrompt"
                     THEN MaxVersionNumber(call.id) + 1
                     ELSE RestoreVersionNumber(call.id, call.data)
  IN  /\ call.pc = "max"
      /\ calls' = [calls EXCEPT ![i].pc = "insert", ![i].n = nextVersion]
      /\ UNCHANGED <<variant, prompts, prompt_versions, prompt_embeddings,
                     pending, last>>

\* An error thrown inside the callback of db.serialize: the catch of the
\* callback rejects the call, and the restorePromptVersion of the tag-
\* bearing module, whose callback has no try, is left with nobody to
\* settle its promise.
Throw(i, status) ==
  IF calls[i].op = "restorePromptVersion" /\ variant = "tags"
  THEN /\ calls' = [calls EXCEPT ![i].pc = "unsettled"]
       /\ UNCHANGED last
  ELSE /\ calls' = Without(i)
       /\ last' = Step(calls[i].op, calls[i].id, calls[i].n, "none", status)

\* INSERT INTO prompt_versions of the state read before
insertVersion(i) ==
  LET call == calls[i]
      version == VersionRow(call.id, call.n, call.snapshot,
                            IF call.op = "updatePrompt" THEN "Updated prompt"
                            ELSE RestoreReason(call.data.version_number, NULL))
  IN  /\ call.pc = "insert"
      /\ call.n <= MaxVersion
      /\ IF InsertVersionFails(version)
         THEN /\ Throw(i, "constraint")
              /\ UNCHANGED prompt_versions
         ELSE /\ prompt_versions' = prompt_versions \cup {version}
              /\ calls' = [calls EXCEPT ![i].pc = "write"]
              /\ UNCHANGED last
      /\ UNCHANGED <<variant, prompts, prompt_embeddings, pending>>

\* UPDATE prompts ... WHERE id = ? and the getPromptById that follows;
\* updatePrompt then starts generateAndSaveEmbedding and resolves.
writePrompt(i) ==
  LET call == calls[i]
  IN  /\ call.pc = "write"
      /\ IF call.id \notin DOMAIN prompts
         THEN /\ Throw(i, "notfound")
              /\ UNCHANGED prompts
         ELSE /\ prompts' = PutPrompt(call.id, StoredRow(call.data))
              /\ last' = [Step(call.op, call.id, call.n, "none", "ok")
                           EXCEPT !.data = FieldsOf(call.data),
                                  !.value = ReadRow(prompts'[call.id])]
              /\ calls' = IF call.op = "updatePrompt"
                          THEN [calls EXCEPT
                                  ![i] = Call("backgroundEmbedding", call.id,
                                              "read", 0, NULL, NULL)]
                          ELSE Without(i)
      /\ UNCHANGED <<variant, prompt_versions, prompt_embeddings, pending>>

\* generateEmbeddingsForAllPrompts stopping at the first prompt that fails.
SettleStoppingAtFailure(i, promptId, success) ==
  LET call == calls[i]
      results == Append(call.results, [success |-> success, promptId |-> promptId])
      count(flag) == Cardinality({k \in 1..Len(results) : results[k].success = flag})
  IN  IF call.op = "backgroundEmbedding"
      THEN /\ calls' = Without(i)
           /\ last' = Step("backgroundEmbedding", promptId, 0, "none",
                           IF success THEN "ok" ELSE "failed")
      ELSE IF call.n = Len(call.data) \/ ~success
      THEN /\ calls' = Without(i)
           /\ last' = [Step("generateEmbeddingsForAllPrompts", <<>>, Len(call.data),
                            "none", "ok")
                        EXCEPT !.data = call.data,
                               !.value = [successful |-> count(TRUE),
                                          failed |-> count(FALSE),
                                          results |-> results]]
      ELSE /\ calls' = [calls EXCEPT ![i].results = results, ![i].pc = "read",
                                      ![i].n = call.n + 1]
           /\ UNCHANGED last

\* What the caller of generateAndSaveEmbedding does with its result: the
\* background refresh ends; the batch pushes the result, sleeps and goes on
\* with the next prompt, or returns the counts after the last one.
Settle(i, promptId, success) ==
  LET call == calls[i]
      results == Append(call.results, [success |-> success, promptId |-> promptId])
      count(flag) == Cardinality({k \in 1..Len(results) : results[k].success = flag})
  IN  IF call.op = "backgroundEmbedding"
      THEN /\ calls' = Without(i)
           /\ last' = Step("backgroundEmbedding", promptId, 0, "none",
                           IF success THEN "ok" ELSE "failed")
      ELSE IF call.n = Len(call.data)
      THEN /\ calls' = Without(i)
           /\ last' = [Step("generateEmbeddingsForAllPrompts", <<>>, Len(call.data),
                            "none", "ok")
                        EXCEPT !.data = call.data,
                               !.value = [successful |-> count(TRUE),
                                          failed |-> count(FALSE),
                                          results |-> results]]
      ELSE /\ calls' = [calls EXCEPT ![i].results = results, ![i].pc = "read",
                                      ![i].n = call.n + 1]
           /\ UNCHANGED last

\* The prompt a running generateAndSaveEmbedding works on.
Target(call) == IF call.op = "backgroundEmbedding" THEN call.id ELSE call.data[call.n]

\* generateAndSaveEmbedding up to generateEmbedding: getPromptById and the
\* text of the prompt.
embedRead(i) ==
  LET call == calls[i]
      got == GetPromptById(Target(call))
  IN  /\ call.pc = "read"
      /\ IF got.status # "ok"
         THEN Settle(i, Target(call), FALSE)
         ELSE /\ calls' = [calls EXCEPT ![i].pc = "save",
                                         ![i].snapshot = EmbeddingText(got.row)]
              /\ UNCHANGED last
      /\ UNCHANGED <<variant, prompts, prompt_versions, prompt_embeddings, pending>>

\* generateAndSaveEmbedding from generateEmbedding on: saveEmbedding of the
\* embedding of the text read before.
embedSave(i, api, random) ==
  LET call == calls[i]
  IN  /\ call.pc = "save"
      /\ IF InsertEmbeddingFails(Target(call))
         THEN /\ Settle(i, Target(call), FALSE)
              /\ UNCHANGED prompt_embeddings
         ELSE /\ prompt_embeddings' =
                   PutEmbedding(Target(call),
                                generateEmbedding(call.snapshot, api, random))
              /\ Settle(i, Target(call), TRUE)
      /\ UNCHANGED <<variant, prompts, prompt_versions, pending>>

\* generateEmbeddingsForAllPrompts up to its first generateAndSaveEmbedding:
\* getAllPrompts() lists the prompts.
batchStart ==
  \E order \in Orders(DOMAIN prompts) :
    /\ Len(calls) < MaxCalls
    /\ \A i \in 1..Len(calls) : calls[i].op # "generateEmbeddingsForAllPrompts"
    /\ IF order = <<>>
       THEN /\ last' = [Step("generateEmbeddingsForAllPrompts", <<>>, 0, "none", "ok")
                         EXCEPT !.data = <<>>,
                                !.value = [successful |-> 0, failed |-> 0,
                                           results |-> <<>>]]
            /\ UNCHANGED calls
       ELSE /\ calls' = Append(calls, Call("generateEmbeddingsForAllPrompts", <<>>,
                                           "read", 1, order, NULL))
            /\ UNCHANGED last
    /\ UNCHANGED <<variant, prompts, prompt_versions, prompt_embeddings, pending>>

\* Overlapping updates and restores of one prompt, the refreshes the
\* updates start, and its deletion.
NextConc ==
  \/ \E id \in WrittenIds : createPrompt(id, FirstFields)
  \/ \E id \in WrittenIds : deletePrompt(id)
  \/ \E id \in WrittenIds, fields \in ValidFields : updateStart(id, fields)
  \/ \E id \in WrittenIds : restoreStart(id, 1)
  \/ \E i \in 1..Len(calls) : selectMax(i)
  \/ \E i \in 1..Len(calls) : insertVersion(i)
  \/ \E i \in 1..Len(calls) : writePrompt(i)
  \/ \E i \in 1..Len(calls) : embedRead(i)
  \/ \E i \in 1..Len(calls) : embedSave(i, "nokey", 0)

SpecConc == Init /\ [][NextConc]_vars

\* Overlapping updates of one prompt and the refreshes they start, nothing
\* else writing.
NextUpdates ==
  \/ \E id \in WrittenIds : createPrompt(id, FirstFields)
  \/ \E id \in WrittenIds, fields \in ValidFields : updateStart(id, fields)
  \/ \E i \in 1..Len(calls) : selectMax(i)
  \/ \E i \in 1..Len(calls) : insertVersion(i)
  \/ \E i \in 1..Len(calls) : writePrompt(i)
  \/ \E i \in 1..Len(calls) : embedRead(i)
  \/ \E i \in 1..Len(calls), random \in RandomDraws : embedSave(i, "nokey", random)

SpecUpdates == Init /\ [][NextUpdates]_vars

\* The batch over up to two prompts that are created and deleted while it
\* runs.
NextBatch ==
  \/ \E id \in ConcIds : createPrompt(id, FirstFields)
  \/ \E id \in ConcIds : deletePrompt(id)
  \/ batchStart
  \/ \E i \in 1..Len(calls) : embedRead(i)
  \/ \E i \in 1..Len(calls), api \in ApiOutcomes, random \in RandomDraws :
       embedSave(i, api, random)

SpecBatch == Init /\ [][NextBatch]_vars

\* C29: no restorePromptVersion call is left with a promise that nothing
\* will settle any more.
C29_RestoreSettles ==
  \A i \in 1..Len(calls) : calls[i].pc # "unsettled"

\* C26: the version a successful updatePrompt recorded holds the fields the
\* live prompt had immediately before that call overwrote it.
C26_VersionHoldsOverwrittenState ==
  [][ ( /\ last' # last
        /\ last'.op = "updatePrompt" /\ last'.status = "ok" )
      => \E r \in prompt_versions' :
           /\ r.prompt_id = last'.id
           /\ r.version_number = last'.n
           /\ FieldsOf(r) = FieldsOf(prompts[last'.id]) ]_vars

\* C25: when a background refresh has saved and no call is in flight any
\* more, the stored embedding of the prompt is the embedding of its current
\* text.
C25_EmbeddingIsCurrent ==
  ( /\ calls = <<>>
    /\ last.op = "backgroundEmbedding" /\ last.status = "ok"
    /\ last.id \in DOMAIN prompts )
  => prompt_embeddings[last.id].text = EmbeddingText(ReadRow(prompts[last.id]))

\* C21: generateEmbeddingsForAllPrompts works through the prompts it listed
\* in order, one at a time, has one result for each listed prompt when it
\* returns, whether the prompt failed or not, and successful + failed is the
\* number of prompts listed.
C21_BatchCoversListedPrompts ==
  /\ \A i \in 1..Len(calls) :
       calls[i].op = "generateEmbeddingsForAllPrompts"
       => /\ calls[i].n \in 1..Len(calls[i].data)
          /\ Len(calls[i].results) = calls[i].n - 1
          /\ \A k \in 1..Len(calls[i].results) :
               calls[i].results[k].promptId = calls[i].data[k]
  /\ last.op = "generateEmbeddingsForAllPrompts"
     => /\ Len(last.value.results) = Len(last.data)
        /\ \A k \in 1..Len(last.data) : last.value.results[k].promptId = last.data[k]
        /\ last.value.successful + last.value.failed = Len(last.data)
        /\ last.value.successful =
             Cardinality({k \in 1..Len(last.data) : last.value.results[k].success})

\* The batch returned after a prompt that failed, deleted while the batch
\* ran, was followed by a prompt that succeeded.
C21_Witness ==
  /\ last.op = "generateEmbeddingsForAllPrompts"
  /\ Len(last.data) = 2
  /\ ~last.value.results[1].success
  /\ last.value.results[2].success
  /\ last.value.failed = 1 /\ last.value.successful = 1

====
